---- MODULE Spec2Model ----
(***************************************************************************)
(* Model of RMSTest.py: the grid scanner with its two entry points,        *)
(* find_greatest_product_of_contiguous_integers and                        *)
(* count_unique_combinations_of_length_k.                                  *)
(*                                                                         *)
(* A grid is a sequence of rows, a row a sequence of integers.  Python's   *)
(* 0-based indices are kept everywhere; the only shift to TLA+'s 1-based   *)
(* sequences is inside PyIndex.                                            *)
(***************************************************************************)
EXTENDS Integers, Sequences, FiniteSets

VARIABLES grid, k, pc, fn, outcome, result, visited, processed, seen

vars == <<grid, k, pc, fn, outcome, result, visited, processed, seen>>

(***************************************************************************)
(* Bounds of the explored inputs.                                          *)
(***************************************************************************)
MaxRows == 2
MaxCols == 3
MaxVal == 1
MaxK == 3

Values == (0 - MaxVal)..MaxVal
KRange == (0 - 1)..MaxK

(***************************************************************************)
(* The 10x10 sample grid of the driver (__main__).                         *)
(***************************************************************************)
SampleGrid ==
  << <<8, 2, 22, 97, 38, 15, 0, 40, 0, 75>>,
     <<49, 49, 99, 40, 17, 81, 18, 57, 60, 87>>,
     <<81, 49, 31, 73, 55, 79, 14, 29, 93, 71>>,
     <<52, 70, 95, 23, 4, 60, 11, 42, 69, 24>>,
     <<22, 31, 16, 71, 51, 67, 63, 89, 41, 92>>,
     <<24, 47, 32, 60, 99, 3, 45, 2, 44, 75>>,
     <<32, 98, 81, 28, 64, 23, 67, 10, 26, 38>>,
     <<67, 26, 20, 68, 2, 62, 12, 20, 95, 63>>,
     <<24, 55, 58, 5, 66, 73, 99, 26, 97, 17>>,
     <<21, 36, 23, 9, 75, 0, 76, 44, 20, 45>> >>

(***************************************************************************)
(* Python list indexing: s[i] with 0 <= i < len reads element i, with      *)
(* -len <= i < 0 wraps around to element len + i, anything else raises     *)
(* IndexError.                                                             *)
(***************************************************************************)
PyIndexOk(s, i) == (0 - Len(s)) <= i /\ i < Len(s)

PyIndex(s, i) == IF i >= 0 THEN s[i + 1] ELSE s[Len(s) + i + 1]

\* grid[rr][cc]
CellOk(g, rr, cc) == PyIndexOk(g, rr) /\ PyIndexOk(PyIndex(g, rr), cc)

Cell(g, rr, cc) == PyIndex(PyIndex(g, rr), cc)

(***************************************************************************)
(* Directions: (dr, dc), in the order of the list in the source.           *)
(***************************************************************************)
DirectionsNoDownLeft == << <<0, 1>>, <<1, 0>>, <<1, 1>> >>

Directions == << <<0, 1>>, <<1, 0>>, <<1, 1>>, <<1, 0 - 1>> >>

(***************************************************************************)
(* Validation of find_greatest_product_of_contiguous_integers.             *)
(***************************************************************************)
RowCount(g) == Len(g)

\* len(grid[0]); count_unique_combinations_of_length_k uses 0 for no rows
ColCount(g) == IF Len(g) > 0 THEN Len(g[1]) ELSE 0

NotRectangular(g) == \E i \in 1..Len(g) : Len(g[i]) # ColCount(g)

ValidationFailsLaxK(g, n) == n < 0 \/ Len(g) = 0 \/ NotRectangular(g)

ValidationFails(g, n) == n < 1 \/ Len(g) = 0 \/ NotRectangular(g)

(***************************************************************************)
(* The end-cell test that guards every run.                                *)
(***************************************************************************)
EndInBoundsNoLower(r, c, d, n, rows, cols) ==
  LET end_r == r + (n - 1) * d[1]
      end_c == c + (n - 1) * d[2]
  IN  end_r < rows /\ end_c < cols

EndInBounds(r, c, d, n, rows, cols) ==
  LET end_r == r + (n - 1) * d[1]
      end_c == c + (n - 1) * d[2]
  IN  0 <= end_r /\ end_r < rows /\ 0 <= end_c /\ end_c < cols

(***************************************************************************)
(* The inner loop "for i in range(k)": the cells it indexes, in order.     *)
(* range(k) is empty for k <= 0.                                           *)
(***************************************************************************)
RunCells(r, c, d, n) ==
  [i \in 1..n |-> <<r + (i - 1) * d[1], c + (i - 1) * d[2]>>]

\* position (1-based) of the first cell whose read raises IndexError, 0 if none
FirstFail(g, cells) ==
  LET bad == {i \in 1..Len(cells) : ~CellOk(g, cells[i][1], cells[i][2])}
  IN  IF bad = {} THEN 0 ELSE CHOOSE i \in bad : \A j \in bad : i <= j

\* the cells the inner loop indexes before it ends or raises
CellsTouched(g, cells) ==
  LET f == FirstFail(g, cells)
  IN  {cells[i] : i \in 1..(IF f = 0 THEN Len(cells) ELSE f)}

RunValues(g, cells) == [i \in 1..Len(cells) |-> Cell(g, cells[i][1], cells[i][2])]

RECURSIVE SeqProduct(_)
SeqProduct(s) == IF Len(s) = 0 THEN 1 ELSE s[1] * SeqProduct(Tail(s))

(***************************************************************************)
(* Product search.  The scan state carries max_product (has = FALSE is     *)
(* None), the cells indexed so far, the runs that passed the end-cell      *)
(* test, and whether an IndexError ended the scan.                         *)
(***************************************************************************)
ScanInit == [has |-> FALSE, max |-> 0, visited |-> {}, processed |-> {},
             seen |-> {}, err |-> FALSE]

ProductStepKeepSmaller(g, n, st, r, c, d) ==
  LET cells == RunCells(r, c, d, n)
  IN  IF ~EndInBounds(r, c, d, n, RowCount(g), ColCount(g))
      THEN st
      ELSE IF FirstFail(g, cells) # 0
      THEN [st EXCEPT !.visited = @ \cup CellsTouched(g, cells),
                      !.processed = @ \cup {<<r, c, d>>},
                      !.err = TRUE]
      ELSE LET product == SeqProduct(RunValues(g, cells))
           IN  [st EXCEPT !.visited = @ \cup CellsTouched(g, cells),
                          !.processed = @ \cup {<<r, c, d>>},
                          !.has = TRUE,
                          !.max = IF ~st.has \/ product < st.max
                                  THEN product ELSE st.max]

ProductStep(g, n, st, r, c, d) ==
  LET cells == RunCells(r, c, d, n)
  IN  IF ~EndInBounds(r, c, d, n, RowCount(g), ColCount(g))
      THEN st
      ELSE IF FirstFail(g, cells) # 0
      THEN [st EXCEPT !.visited = @ \cup CellsTouched(g, cells),
                      !.processed = @ \cup {<<r, c, d>>},
                      !.err = TRUE]
      ELSE LET product == SeqProduct(RunValues(g, cells))
           IN  [st EXCEPT !.visited = @ \cup CellsTouched(g, cells),
                          !.processed = @ \cup {<<r, c, d>>},
                          !.has = TRUE,
                          !.max = IF ~st.has \/ product > st.max
                                  THEN product ELSE st.max]

\* for dr, dc in directions
RECURSIVE ProductDirs(_, _, _, _, _, _)
ProductDirs(g, n, r, c, di, st) ==
  IF di > Len(Directions) \/ st.err
  THEN st
  ELSE ProductDirs(g, n, r, c, di + 1, ProductStep(g, n, st, r, c, Directions[di]))

\* for c in range(col_count)
RECURSIVE ProductCols(_, _, _, _, _)
ProductCols(g, n, r, c, st) ==
  IF c >= ColCount(g) \/ st.err
  THEN st
  ELSE ProductCols(g, n, r, c + 1, ProductDirs(g, n, r, c, 1, st))

\* for r in range(row_count)
RECURSIVE ProductRows(_, _, _, _)
ProductRows(g, n, r, st) ==
  IF r >= RowCount(g) \/ st.err
  THEN st
  ELSE ProductRows(g, n, r + 1, ProductCols(g, n, r, 0, st))

\* return max_product if max_product is not None else 0
ReturnValueFallbackOne(st) == IF st.has THEN st.max ELSE 1

ReturnValue(st) == IF st.has THEN st.max ELSE 0

find_greatest_product_of_contiguous_integers(g, contiguous_integers) ==
  IF ValidationFails(g, contiguous_integers)
  THEN [outcome |-> "ValueError", value |-> 0, visited |-> {},
        processed |-> {}, seen |-> {}]
  ELSE LET st == ProductRows(g, contiguous_integers, 0, ScanInit)
       IN  [outcome |-> IF st.err THEN "IndexError" ELSE "ok",
            value |-> IF st.err THEN 0 ELSE ReturnValue(st),
            visited |-> st.visited, processed |-> st.processed, seen |-> {}]

(***************************************************************************)
(* Unique counting.                                                        *)
(***************************************************************************)
Reversed(s) == [i \in 1..Len(s) |-> s[Len(s) + 1 - i]]

\* Python's tuple ordering a < b: lexicographic, a proper prefix is smaller
TupleLess(a, b) ==
  LET m == IF Len(a) < Len(b) THEN Len(a) ELSE Len(b)
      diff == {i \in 1..m : a[i] # b[i]}
  IN  IF diff = {}
      THEN Len(a) < Len(b)
      ELSE LET j == CHOOSE i \in diff : \A h \in diff : i <= h
           IN  a[j] < b[j]

\* min(fwd, rev)
CanonicalForwardOnly(seq) == seq

Canonical(seq) ==
  LET fwd == seq
      rev == Reversed(seq)
  IN  IF TupleLess(rev, fwd) THEN rev ELSE fwd

CountStep(g, n, st, r, c, d) ==
  LET cells == RunCells(r, c, d, n)
  IN  IF ~EndInBounds(r, c, d, n, RowCount(g), ColCount(g))
      THEN st
      ELSE IF FirstFail(g, cells) # 0
      THEN [st EXCEPT !.visited = @ \cup CellsTouched(g, cells),
                      !.processed = @ \cup {<<r, c, d>>},
                      !.err = TRUE]
      ELSE [st EXCEPT !.visited = @ \cup CellsTouched(g, cells),
                      !.processed = @ \cup {<<r, c, d>>},
                      !.seen = @ \cup {Canonical(RunValues(g, cells))}]

\* for dr, dc in directions
RECURSIVE CountDirs(_, _, _, _, _, _)
CountDirs(g, n, r, c, di, st) ==
  IF di > Len(Directions) \/ st.err
  THEN st
  ELSE CountDirs(g, n, r, c, di + 1, CountStep(g, n, st, r, c, Directions[di]))

\* for c in range(col_count)
RECURSIVE CountCols(_, _, _, _, _)
CountCols(g, n, r, c, st) ==
  IF c >= ColCount(g) \/ st.err
  THEN st
  ELSE CountCols(g, n, r, c + 1, CountDirs(g, n, r, c, 1, st))

\* for r in range(row_count)
RECURSIVE CountRows(_, _, _, _)
CountRows(g, n, r, st) ==
  IF r >= RowCount(g) \/ st.err
  THEN st
  ELSE CountRows(g, n, r + 1, CountCols(g, n, r, 0, st))

\* return len(seen)
count_unique_keeping_duplicates(g, n) ==
  LET st == CountRows(g, n, 0, ScanInit)
  IN  [outcome |-> IF st.err THEN "IndexError" ELSE "ok",
       value |-> IF st.err THEN 0 ELSE Cardinality(st.processed),
       visited |-> st.visited, processed |-> st.processed, seen |-> st.seen]

count_unique_combinations_of_length_k(g, n) ==
  LET st == CountRows(g, n, 0, ScanInit)
  IN  [outcome |-> IF st.err THEN "IndexError" ELSE "ok",
       value |-> IF st.err THEN 0 ELSE Cardinality(st.seen),
       visited |-> st.visited, processed |-> st.processed, seen |-> st.seen]

(***************************************************************************)
(* Inputs: every rectangular grid within the bounds (zero rows and zero    *)
(* columns included), the same grids with one row cut short by one cell,   *)
(* and the sample grid.                                                    *)
(***************************************************************************)
RectGrids ==
  UNION {[1..nr -> [1..nc -> Values]] : nr \in 0..MaxRows, nc \in 0..MaxCols}

CutRow(g, j) ==
  [i \in 1..Len(g) |-> IF i = j THEN SubSeq(g[i], 1, Len(g[i]) - 1) ELSE g[i]]

RaggedGrids ==
  {CutRow(g, j) : <<g, j>> \in
     {p \in RectGrids \X (1..MaxRows) :
        p[2] <= Len(p[1]) /\ Len(p[1]) >= 2 /\ Len(p[1][1]) >= 1}}

InputGrids == RectGrids \cup RaggedGrids \cup {SampleGrid}

Init ==
  /\ grid \in InputGrids
  /\ k \in KRange
  /\ pc = "ready"
  /\ fn = "none"
  /\ outcome = "none"
  /\ result = 0
  /\ visited = {}
  /\ processed = {}
  /\ seen = {}

Finish(name, res) ==
  /\ pc' = "done"
  /\ fn' = name
  /\ outcome' = res.outcome
  /\ result' = res.value
  /\ visited' = res.visited
  /\ processed' = res.processed
  /\ seen' = res.seen
  /\ UNCHANGED <<grid, k>>

CallProduct ==
  /\ pc = "ready"
  /\ Finish("product", find_greatest_product_of_contiguous_integers(grid, k))

CallCount ==
  /\ pc = "ready"
  /\ Finish("count", count_unique_combinations_of_length_k(grid, k))

Next == CallProduct \/ CallCount

Spec == Init /\ [][Next]_vars

(***************************************************************************)
(* Reference definitions used by the properties: geometry stated cell by   *)
(* cell, independently of the end-cell test of the scan.                   *)
(***************************************************************************)
Rectangular(g) == \A i \in 1..Len(g) : Len(g[i]) = Len(g[1])

InGrid(g, cell) ==
  /\ 0 <= cell[1] /\ cell[1] < Len(g)
  /\ 0 <= cell[2] /\ cell[2] < ColCount(g)

BaseFour == {<<0, 1>>, <<1, 0>>, <<1, 1>>, <<1, 0 - 1>>}

AllEight == BaseFour \cup {<<0 - d[1], 0 - d[2]>> : d \in BaseFour}

Starts(g) == (0..(Len(g) - 1)) \X (0..(ColCount(g) - 1))

\* the runs <<r, c, d>> of length n all of whose cells lie in the grid
FitRuns(g, n, dirs) ==
  {<<p[1], p[2], d>> : <<p, d>> \in
     {q \in Starts(g) \X dirs :
        \A i \in 0..(n - 1) :
          InGrid(g, <<q[1][1] + i * q[2][1], q[1][2] + i * q[2][2]>>)}}

RunSeq(g, run, n) ==
  [i \in 1..n |-> g[run[1] + (i - 1) * run[3][1] + 1][run[2] + (i - 1) * run[3][2] + 1]]

SetMax(S) == CHOOSE x \in S : \A y \in S : y <= x

ReflectLR(g) == [i \in 1..Len(g) |-> Reversed(g[i])]

ReflectTB(g) == Reversed(g)

Done(name) == pc = "done" /\ fn = name

(***************************************************************************)
(* C1: for a rectangular grid and 1 <= k <= min(rows, cols), the product   *)
(* search returns the maximum product over the runs of length k in all     *)
(* eight directions, although it scans only the four base directions.      *)
(***************************************************************************)
C1_EightDirectionMax ==
  (Done("product") /\ Rectangular(grid) /\ 1 <= k /\ k <= Len(grid)
     /\ k <= ColCount(grid))
  => /\ outcome = "ok"
     /\ result = SetMax({SeqProduct(RunSeq(grid, run, k)) :
                           run \in FitRuns(grid, k, AllEight)})

\* the maximum is attained on the anti-diagonal only
C1_Witness ==
  /\ Done("product") /\ k = 2
  /\ grid = << <<0, 1>>, <<1, 0>> >>
  /\ result = 1

(***************************************************************************)
(* C2: the product search ends in ValueError exactly when k < 1, the grid  *)
(* has no rows, or some row's length differs from the first row's; on      *)
(* that error no run was enumerated and no cell was read.                  *)
(***************************************************************************)
C2_InvalidParameter ==
  Done("product")
  => /\ (outcome = "ValueError")
          <=> (k < 1 \/ Len(grid) = 0 \/ ~Rectangular(grid))
     /\ (outcome = "ValueError") => (visited = {} /\ processed = {})

C2_Witness ==
  /\ Done("product") /\ outcome = "ValueError"
  /\ k >= 1 /\ Len(grid) = 2 /\ ~Rectangular(grid)

(***************************************************************************)
(* C3: the unique count raises ValueError for a grid with rows of unequal  *)
(* length and for k = 0.                                                   *)
(***************************************************************************)
C3_CountValidates ==
  (Done("count") /\ (~Rectangular(grid) \/ k = 0))
  => outcome = "ValueError"

(***************************************************************************)
(* C4: for a rectangular grid and k >= 1 the unique count is the number of *)
(* classes of base-direction runs under "equal value sequences, or one is  *)
(* the reverse of the other": two runs share an identity iff so related.   *)
(***************************************************************************)
C4_CountsReversalClasses ==
  (Done("count") /\ Rectangular(grid) /\ k >= 1)
  => LET seqs == {RunSeq(grid, run, k) : run \in FitRuns(grid, k, BaseFour)}
         classes == {{s, Reversed(s)} : s \in seqs}
     IN  /\ outcome = "ok"
         /\ result = Cardinality(classes)
         /\ \A s, t \in seqs :
              (Canonical(s) = Canonical(t)) <=> (s = t \/ s = Reversed(t))

\* a run and its mirror image both occur, and are counted once
C4_Witness ==
  /\ Done("count") /\ k = 2
  /\ grid = << <<0, 1>>, <<1, 0>> >>
  /\ result = 3

(***************************************************************************)
(* C5: for a rectangular grid and k >= 1 the unique count, and the set of  *)
(* canonical identities behind it, are the same for the grid, its          *)
(* left-right reflection and its top-bottom reflection.                    *)
(***************************************************************************)
C5_ReflectionInvariant ==
  (Done("count") /\ Rectangular(grid) /\ k >= 1)
  => LET lr == count_unique_combinations_of_length_k(ReflectLR(grid), k)
         tb == count_unique_combinations_of_length_k(ReflectTB(grid), k)
     IN  /\ lr.outcome = outcome /\ tb.outcome = outcome
         /\ lr.value = result /\ tb.value = result
         /\ lr.seen = seen /\ tb.seen = seen

C5_Witness ==
  /\ Done("count") /\ k = 2 /\ Len(grid) = 2 /\ ColCount(grid) = 3
  /\ Rectangular(grid)
  /\ ReflectLR(grid) # grid /\ ReflectTB(grid) # grid
  /\ ReflectLR(grid) # ReflectTB(grid)
  /\ result >= 3

(***************************************************************************)
(* C6: on the 10x10 sample grid with run length 3 the unique count is 288  *)
(* and the greatest product is 667755.                                     *)
(***************************************************************************)
C6_SampleResults ==
  (pc = "done" /\ grid = SampleGrid /\ k = 3)
  => /\ outcome = "ok"
     /\ fn = "count" => result = 288
     /\ fn = "product" => result = 667755

C6_Witness ==
  /\ Done("product") /\ grid = SampleGrid /\ k = 3
  /\ outcome = "ok" /\ result = 667755

(***************************************************************************)
(* C7: for a rectangular grid with at least one row and k larger than both *)
(* dimensions, no run fits and the product search returns 0, no error.     *)
(***************************************************************************)
C7_FallbackZero ==
  (Done("product") /\ Len(grid) >= 1 /\ Rectangular(grid)
     /\ k > Len(grid) /\ k > ColCount(grid))
  => /\ outcome = "ok"
     /\ result = 0
     /\ processed = {} /\ visited = {}

\* no cell is 0, so the 0 returned is the fallback and not a product
C7_Witness ==
  /\ Done("product") /\ Len(grid) = 2 /\ ColCount(grid) = 2 /\ k = 3
  /\ Rectangular(grid)
  /\ \A i \in 1..2 : \A j \in 1..2 : grid[i][j] # 0
  /\ result = 0 /\ outcome = "ok"

(***************************************************************************)
(* C8: whenever the validation of the product search succeeds, the grid is *)
(* rectangular with row_count >= 1 and col_count >= 1.                     *)
(***************************************************************************)
C8_ValidatedHasCells ==
  (Done("product") /\ outcome # "ValueError")
  => /\ Rectangular(grid)
     /\ RowCount(grid) >= 1
     /\ ColCount(grid) >= 1

(***************************************************************************)
(* C9: whenever the validation of the product search succeeds, the scan    *)
(* finds at least one run, so max_product is not None at the return and    *)
(* the fallback 0 is never taken.                                          *)
(***************************************************************************)
C9_FallbackNeverTaken ==
  (Done("product") /\ outcome # "ValueError")
  => processed # {}

(***************************************************************************)
(* C10: in both scans, for a rectangular grid and k >= 1, every cell that  *)
(* is read lies inside the grid (no IndexError, no negative index), and a  *)
(* run is processed iff its end cell is in bounds, which is iff all of its *)
(* cells are.                                                              *)
(***************************************************************************)
C10_EndCellCheckSuffices ==
  (pc = "done" /\ Rectangular(grid) /\ k >= 1)
  => /\ outcome # "IndexError"
     /\ \A cell \in visited : InGrid(grid, cell)
     /\ outcome = "ok" =>
          /\ processed = FitRuns(grid, k, BaseFour)
          /\ processed =
               {<<p[1], p[2], d>> : <<p, d>> \in
                  {q \in Starts(grid) \X BaseFour :
                     InGrid(grid, <<q[1][1] + (k - 1) * q[2][1],
                                    q[1][2] + (k - 1) * q[2][2]>>)}}
          /\ visited =
               UNION {{<<run[1] + i * run[3][1], run[2] + i * run[3][2]>> :
                         i \in 0..(k - 1)} : run \in processed}

\* a down-left run from the last column is scanned, the one from column 0 is not
C10_Witness ==
  /\ pc = "done" /\ outcome = "ok" /\ k = 2
  /\ Len(grid) = 2 /\ ColCount(grid) = 2 /\ Rectangular(grid)
  /\ <<0, 1, <<1, 0 - 1>>>> \in processed
  /\ <<0, 0, <<1, 0 - 1>>>> \notin processed
  /\ <<1, 0>> \in visited

====
